---------------------------- MODULE Spec2Model ----------------------------
(***************************************************************************)
(* Model of the SSL half of scf-secret-generator (src/ssl/ssl.go):         *)
(* RecordCertInfo fills the id-keyed registry (certInfo), GenerateCerts    *)
(* runs createCA for every authority record and then createCert for every  *)
(* other record against the secret store (secrets.Data).                   *)
(*                                                                         *)
(* Byte blobs are tuples: <<>> is the empty blob, <<kind, serial, signer>> *)
(* a PEM blob of kind "key" or "cert" with a serial number that makes      *)
(* every generated artifact distinct, and the serial of the signing cert.  *)
(* A Go map is a function whose DOMAIN holds the keys present; reading an  *)
(* absent key gives the zero value, as in Go.                              *)
(***************************************************************************)
EXTENDS Naturals, Sequences, FiniteSets, TLC

\* ------------------------------------------------------------- bounds
\* Number of RecordCertInfo events of one configuration scan.
MaxEvents == 4
\* Number of GenerateCerts invocations on the same registry and store.
MaxRuns == 2
\* Number of RecordCertInfo events of a scan whose events are logged.
MaxLog == 3

\* ---------------------------------------------------------- constants
defaultCA == "cacert"

ValueTypeCertificate == "certificate"
ValueTypePrivateKey == "private_key"
ValueTypePassword == "password"
GeneratorTypeCACertificate == "CACertificate"
GeneratorTypeCertificate == "Certificate"

NoBytes == <<>>

\* info := certInfo[id] for an id the map does not hold
ZeroInfo ==
    [ PrivateKeyName  |-> "",
      CertificateName |-> "",
      IsAuthority     |-> FALSE,
      SubjectNames    |-> <<>>,
      RoleName        |-> "",
      Certificate     |-> NoBytes,
      PrivateKey      |-> NoBytes ]

\* m[k] of a Go map with zero value z
MapGet(m, k, z) == IF k \in DOMAIN m THEN m[k] ELSE z

\* m[k] = v of a Go map
MapPut(m, k, v) == [x \in (DOMAIN m) \cup {k} |-> IF x = k THEN v ELSE m[x]]

EmptyMap == [x \in {} |-> NoBytes]

\* secrets.Data[name]
Data(store, name) == MapGet(store, name, NoBytes)

\* ------------------------------------------------------ inputs of a run
\* util.ConvertNameToKey on the variable names of the manifest: lower case,
\* "_" replaced by "-".
ConvertNameToKey(name) ==
    CASE name = "CA_KEY"    -> "ca-key"
      [] name = "CA_CERT"   -> "ca-cert"
      [] name = "CA2_CERT"  -> "ca2-cert"
      [] name = "API_KEY"   -> "api-key"
      [] name = "API_CERT"  -> "api-cert"
      [] name = "BARE_KEY"  -> "bare-key"
      [] name = "BARE_CERT" -> "bare-cert"
      [] OTHER              -> name

\* Subject-name templates: a sequence of tokens, <<"lit", text>> for literal
\* text, <<"var", NAME>> for the action {{.NAME}}, <<"bad", text>> for text
\* that template.Parse rejects (an unclosed action).
TmplApiDomain == << <<"lit", "api.">>, <<"var", "DOMAIN">> >>
TmplNsSuffix ==
    << <<"var", "KUBERNETES_NAMESPACE">>, <<"lit", ".">>,
       <<"var", "KUBE_SERVICE_DOMAIN_SUFFIX">> >>
TmplBad == << <<"bad", "{{">> >>

ConfigVar(name, id, valueType, type, subjectNames, roleName) ==
    [ Name |-> name,
      Generator |-> [ ID |-> id, ValueType |-> valueType, Type |-> type,
                      SubjectNames |-> subjectNames, RoleName |-> roleName ] ]

\* The configuration variables a manifest may hold.
ConfigVars ==
    { ConfigVar("CA_KEY", "cacert", ValueTypePrivateKey,
                GeneratorTypeCACertificate, <<>>, ""),
      ConfigVar("CA_CERT", "cacert", ValueTypeCertificate,
                GeneratorTypeCACertificate, <<>>, ""),
      ConfigVar("CA2_CERT", "ca2", ValueTypeCertificate,
                GeneratorTypeCACertificate, <<>>, ""),
      ConfigVar("API_KEY", "api", ValueTypePrivateKey,
                GeneratorTypeCertificate, <<>>, "api"),
      ConfigVar("API_KEY", "api", ValueTypePrivateKey,
                GeneratorTypeCertificate, <<>>, ""),
      ConfigVar("API_CERT", "api", ValueTypeCertificate,
                GeneratorTypeCertificate, <<TmplApiDomain, TmplNsSuffix>>, ""),
      ConfigVar("API_PASSWORD", "api", ValueTypePassword,
                GeneratorTypeCertificate, <<TmplBad>>, ""),
      ConfigVar("BARE_KEY", "bare", ValueTypePrivateKey,
                GeneratorTypeCertificate, <<>>, ""),
      ConfigVar("BARE_CERT", "bare", ValueTypeCertificate,
                GeneratorTypeCertificate, <<>>, "") }

\* The variables a logged scan may hand to RecordCertInfo, for two ids and
\* every value type: an authority's variable without names, and two leaf
\* variables with different subject names and role names.
RecordEvents ==
    { ConfigVar(name, id, valueType, GeneratorTypeCACertificate, <<>>, "") :
        name \in {"API_KEY"}, id \in {"api", "cacert"},
        valueType \in {ValueTypeCertificate, ValueTypePrivateKey, ValueTypePassword} }
    \cup
    { ConfigVar(name, id, valueType, GeneratorTypeCertificate, <<TmplApiDomain>>, "api") :
        name \in {"API_CERT"}, id \in {"api", "cacert"},
        valueType \in {ValueTypeCertificate, ValueTypePrivateKey, ValueTypePassword} }
    \cup
    { ConfigVar(name, id, valueType, GeneratorTypeCertificate, <<TmplNsSuffix>>, "web") :
        name \in {"API_KEY"}, id \in {"api", "cacert"},
        valueType \in {ValueTypeCertificate, ValueTypePrivateKey, ValueTypePassword} }

Namespaces == {"ns1"}
domain == "example.com"
serviceDomainSuffix == "svc.example.com"

\* Entries the secret may hold before the first run, and their bytes.
PreNames == {"ca-key", "ca-cert", "api-key", "api-cert"}
OldKey == <<"key", 0, 0>>
OldCert == <<"cert", 0, 0>>
\* A key entry holds a key and a certificate entry a certificate, but the
\* authority's certificate entry may also hold bytes that are no certificate.
OldBytes(name) ==
    IF name = "ca-cert" THEN {OldCert, OldKey}
    ELSE IF name \in {"ca-key", "api-key"} THEN {OldKey}
    ELSE {OldCert}
InitialStores ==
    UNION { {f \in [S -> {OldKey, OldCert}] : \A n \in S : f[n] \in OldBytes(n)}
            : S \in SUBSET PreNames }

\* Update overlays an operator may supply: both entries of the default
\* authority, or only one entry of a pair.
OverlayKey == <<"key", 0, 0>>
OverlayCert == <<"cert", 0, 0>>
Overlays ==
    { [n \in {"ca-key", "ca-cert"} |-> IF n = "ca-key" THEN OverlayKey ELSE OverlayCert],
      [n \in {"api-key"} |-> OverlayKey],
      [n \in {"api-cert"} |-> OverlayCert] }

VARIABLES
    certInfo,    \* map[string]CertInfo, the registry
    secrets,     \* secrets.Data
    updates,     \* the operator's update overlay (never read by ssl.go)
    namespace,   \* the namespace argument of GenerateCerts
    phase,       \* "scan", "phase1", "phase2", "done"
    todo,        \* ids the running loop has not visited yet
    err,         \* the error GenerateCerts returned ("nil": none)
    run,         \* number of GenerateCerts invocations so far
    nEvents,     \* number of RecordCertInfo events so far
    serial,      \* number of artifacts generated so far
    calls,       \* history: CA-capability calls of the current run
    writes,      \* history: store writes of the current run
    okIds,       \* history: ids whose builder returned nil in the current run
    failedId,    \* history: the id whose builder returned the error
    warned,      \* history: ids the current run warned about ("has no names")
    events,      \* history: the variables handed to RecordCertInfo, when logged
    store0,      \* history: secrets.Data when the current run started
    prev         \* history: outcome of the previous run

vars == << certInfo, secrets, updates, namespace, phase, todo, err, run,
           nEvents, serial, calls, writes, okIds, failedId, warned,
           events, store0, prev >>

NoPrev == [ran |-> FALSE, err |-> "nil", okIds |-> {}, failedId |-> "",
           wrote |-> FALSE]


\* ----------------------------------------------------- RecordCertInfo
\* RecordCertInfo taking the subject names and the role name of every
\* variable, empty or not
RecordCertInfoOverwrites(ci, configVar) ==
    LET g     == configVar.Generator
        info  == MapGet(ci, g.ID, ZeroInfo)
        info1 == CASE g.ValueType = ValueTypeCertificate ->
                        [info EXCEPT !.CertificateName = ConvertNameToKey(configVar.Name)]
                   [] g.ValueType = ValueTypePrivateKey ->
                        [info EXCEPT !.PrivateKeyName = ConvertNameToKey(configVar.Name)]
                   [] OTHER -> info
    IN  MapPut(ci, g.ID,
               [info1 EXCEPT !.IsAuthority = (g.Type = GeneratorTypeCACertificate),
                             !.SubjectNames = g.SubjectNames,
                             !.RoleName = g.RoleName])

RecordCertInfo(ci, configVar) ==
    LET g     == configVar.Generator
        info  == MapGet(ci, g.ID, ZeroInfo)
        info1 == CASE g.ValueType = ValueTypeCertificate ->
                        [info EXCEPT !.CertificateName = ConvertNameToKey(configVar.Name)]
                   [] g.ValueType = ValueTypePrivateKey ->
                        [info EXCEPT !.PrivateKeyName = ConvertNameToKey(configVar.Name)]
                   [] OTHER -> info
        info2 == [info1 EXCEPT !.IsAuthority = (g.Type = GeneratorTypeCACertificate)]
        info3 == IF Len(g.SubjectNames) > 0
                 THEN [info2 EXCEPT !.SubjectNames = g.SubjectNames]
                 ELSE info2
        info4 == IF g.RoleName # ""
                 THEN [info3 EXCEPT !.RoleName = g.RoleName]
                 ELSE info3
    IN  MapPut(ci, g.ID, info4)

\* ------------------------------------------------------ SAN derivation
\* addHost with the wildcard form appended before the name
addHostWildcardFirst(hosts, wildcard, name) ==
    IF wildcard THEN hosts \o <<"*." \o name, name>> ELSE Append(hosts, name)

\* addHost: append name, and "*."+name when wildcard
addHost(hosts, wildcard, name) ==
    IF wildcard THEN hosts \o <<name, "*." \o name>> ELSE Append(hosts, name)

\* the mapping handed to t.Execute; a key the map lacks prints as ""
Mapping(key, ns) ==
    CASE key = "DOMAIN"                     -> domain
      [] key = "KUBERNETES_NAMESPACE"       -> ns
      [] key = "KUBE_SERVICE_DOMAIN_SUFFIX" -> serviceDomainSuffix
      [] OTHER                              -> ""

\* template.Parse succeeds
ParseOK(name) == \A i \in 1..Len(name) : name[i][1] # "bad"

RECURSIVE Execute(_, _)
\* t.Execute(buf, mapping); buf.String(). html/template escapes what it
\* substitutes; the values here (letters, digits, "." and "-") have nothing
\* to escape.
Execute(name, ns) ==
    IF Len(name) = 0 THEN ""
    ELSE (IF name[1][1] = "lit" THEN name[1][2] ELSE Mapping(name[1][2], ns))
         \o Execute(Tail(name), ns)

\* the hosts the role name contributes (createCert, if info.RoleName != "")
RoleHosts(info, ns) ==
    IF info.RoleName = "" THEN <<>>
    ELSE LET r  == info.RoleName
             h1 == addHost(<<>>, TRUE, r)
             h2 == addHost(h1, TRUE, r \o "." \o ns \o ".svc")
             h3 == addHost(h2, TRUE, r \o "." \o ns \o ".svc.cluster.local")
             prefix == "*." \o r \o "-set"
             h4 == addHost(h3, FALSE, prefix)
             h5 == addHost(h4, FALSE, prefix \o "." \o ns \o ".svc")
             h6 == addHost(h5, FALSE, prefix \o "." \o ns \o ".svc.cluster.local")
         IN  addHost(h6, TRUE, r \o "." \o serviceDomainSuffix)

RECURSIVE SubjectHosts(_, _, _)
\* the loop over info.SubjectNames, for names that all parse
SubjectHosts(hosts, names, ns) ==
    IF Len(names) = 0 THEN hosts
    ELSE SubjectHosts(addHost(hosts, FALSE, Execute(names[1], ns)), Tail(names), ns)

\* Hosts falling back to the private key's name
HostsFallbackKeyName(info, ns) ==
    LET h == SubjectHosts(RoleHosts(info, ns), info.SubjectNames, ns)
    IN  IF Len(h) = 0 THEN <<info.PrivateKeyName>> ELSE h

\* req.Hosts when the request is handed to the key generator
Hosts(info, ns) ==
    LET h == SubjectHosts(RoleHosts(info, ns), info.SubjectNames, ns)
    IN  IF Len(h) = 0 THEN <<info.CertificateName>> ELSE h

\* req.CN taken from the last host
CommonNameLast(hosts) == hosts[Len(hosts)]

\* req.CN
CommonName(hosts) == hosts[1]

\* helpers.ParseCertificatePEM / helpers.ParsePrivateKeyPEM succeed
IsCertPEM(bytes) == Len(bytes) > 0 /\ bytes[1] = "cert"
IsKeyPEM(bytes) == Len(bytes) > 0 /\ bytes[1] = "key"


\* ------------------------------------------------------------ builders
\* A CA-capability call as the history records it.
Call(op, id, hosts, cn, caKey, caCert) ==
    [op |-> op, id |-> id, Hosts |-> hosts, CN |-> cn,
     caKey |-> caKey, caCert |-> caCert]

Write(id, name, bytes) == [id |-> id, name |-> name, bytes |-> bytes]

\* What a builder call leaves behind: the error it returns, the registry and
\* the store after it, and the capability calls and store writes it made.
Result(e, ci, store, cs, ws) ==
    [err |-> e, certInfo |-> ci, secrets |-> store, calls |-> cs, writes |-> ws]

\* createCA without its existence check
NoCAExists(store, info) == FALSE

\* createCA's existence check looking at the certificate entry
CAExistsByCert(store, info) == Len(Data(store, info.CertificateName)) > 0

\* createCA: if len(secrets.Data[info.PrivateKeyName]) > 0
CAExists(store, info) == Len(Data(store, info.PrivateKeyName)) > 0

\* createCA(certInfo, secrets, id); mintOK: initca.New returned no error,
\* n: the serial of the material it made.
createCA(ci, store, id, mintOK, n) ==
    LET info == MapGet(ci, id, ZeroInfo)
        mint == Call("mintRoot", id, <<>>, "SCF CA", NoBytes, NoBytes)
    IN  IF CAExists(store, info)
        THEN LET adopted == [info EXCEPT
                                !.PrivateKey  = Data(store, info.PrivateKeyName),
                                !.Certificate = Data(store, info.CertificateName)]
             IN  Result("nil", MapPut(ci, id, adopted), store, {}, {})
        ELSE IF ~mintOK
        THEN Result("Cannot create CA", ci, store, {mint}, {})
        ELSE LET made   == [info EXCEPT !.Certificate = <<"cert", n, n>>,
                                        !.PrivateKey  = <<"key", n, n>>]
                 store1 == MapPut(store, made.PrivateKeyName, made.PrivateKey)
                 store2 == MapPut(store1, made.CertificateName, made.Certificate)
             IN  Result("nil", MapPut(ci, id, made), store2, {mint},
                        { Write(id, made.PrivateKeyName, made.PrivateKey),
                          Write(id, made.CertificateName, made.Certificate) })

\* createCert without its existence check
NoCertExists(store, info) == FALSE

\* createCert: if len(secrets.Data[info.PrivateKeyName]) > 0
CertExists(store, info) == Len(Data(store, info.PrivateKeyName)) > 0

\* the default CA check looking at the private key only
CAMissingKeyOnly(caInfo) == Len(caInfo.PrivateKey) = 0

\* createCert: the default CA's private key or certificate is empty
CAMissing(caInfo) == Len(caInfo.PrivateKey) = 0 \/ Len(caInfo.Certificate) = 0

\* createCert: the four checks between signing and the store writes
InvariantError(info) ==
    IF Len(info.PrivateKeyName) = 0 THEN "empty private key name"
    ELSE IF Len(info.PrivateKey) = 0 THEN "empty private key"
    ELSE IF Len(info.CertificateName) = 0 THEN "empty certificate name"
    ELSE IF Len(info.Certificate) = 0 THEN "empty certificate"
    ELSE "nil"

\* createCert(certInfo, namespace, domain, serviceDomainSuffix, secrets, id);
\* genOK: g.ProcessRequest returned no error, signOK: local.NewSigner and
\* s.Sign returned no error, n: the serial of the material they made.
createCert(ci, ns, store, id, genOK, signOK, n) ==
    LET info   == MapGet(ci, id, ZeroInfo)
        caInfo == MapGet(ci, defaultCA, ZeroInfo)
        hosts  == Hosts(info, ns)
        cn     == CommonName(hosts)
        gen    == Call("genkey", id, hosts, cn, NoBytes, NoBytes)
        sign   == Call("sign", id, hosts, cn, caInfo.PrivateKey, caInfo.Certificate)
        made   == [info EXCEPT !.PrivateKey  = <<"key", n, caInfo.Certificate[2]>>,
                               !.Certificate = <<"cert", n, caInfo.Certificate[2]>>]
        store1 == MapPut(store, made.PrivateKeyName, made.PrivateKey)
        store2 == MapPut(store1, made.CertificateName, made.Certificate)
    IN  IF CertExists(store, info)
        THEN Result("nil", ci, store, {}, {})
        ELSE IF CAMissing(caInfo)
        THEN Result("CA not found", ci, store, {}, {})
        ELSE IF \E i \in 1..Len(info.SubjectNames) : ~ParseOK(info.SubjectNames[i])
        THEN Result("Can't parse subject name", ci, store, {}, {})
        ELSE IF ~genOK
        THEN Result("Cannot generate cert", ci, store, {gen}, {})
        ELSE IF ~IsCertPEM(caInfo.Certificate)
        THEN Result("Cannot parse CA cert", ci, store, {gen}, {})
        ELSE IF ~IsKeyPEM(caInfo.PrivateKey)
        THEN Result("Cannot parse CA private key", ci, store, {gen}, {})
        ELSE IF ~signOK
        THEN Result("Failed to sign cert", ci, store, {gen, sign}, {})
        ELSE IF InvariantError(made) # "nil"
        THEN Result(InvariantError(made), ci, store, {gen, sign}, {})
        ELSE Result("nil", MapPut(ci, id, made), store2, {gen, sign},
                    { Write(id, made.PrivateKeyName, made.PrivateKey),
                      Write(id, made.CertificateName, made.Certificate) })

\* ------------------------------------------------------- GenerateCerts
\* the ids the first loop hands to createCA
Phase1Ids(ci) == {id \in DOMAIN ci : ci[id].IsAuthority}

\* the ids the second loop hands to createCert
Phase2Ids(ci) == {id \in DOMAIN ci : ~ci[id].IsAuthority}

\* the second loop's warning
NoNames(info) == Len(info.SubjectNames) = 0 /\ info.RoleName = ""

\* AfterBuilder undoing the run's store writes when it returns an error
AfterBuilderRollback(id, r) ==
    /\ certInfo' = r.certInfo
    /\ secrets' = IF r.err # "nil" THEN store0 ELSE r.secrets
    /\ calls' = calls \cup r.calls
    /\ writes' = writes \cup r.writes
    /\ serial' = IF r.writes # {} THEN serial + 1 ELSE serial
    /\ IF r.err # "nil"
       THEN /\ phase' = "done"
            /\ err' = r.err
            /\ failedId' = id
            /\ todo' = {}
            /\ okIds' = okIds
       ELSE /\ phase' = phase
            /\ err' = err
            /\ failedId' = failedId
            /\ todo' = todo \ {id}
            /\ okIds' = okIds \cup {id}

\* AfterBuilder remembering the error and going on with the loop
AfterBuilderContinue(id, r) ==
    /\ certInfo' = r.certInfo
    /\ secrets' = r.secrets
    /\ calls' = calls \cup r.calls
    /\ writes' = writes \cup r.writes
    /\ serial' = IF r.writes # {} THEN serial + 1 ELSE serial
    /\ phase' = phase
    /\ todo' = todo \ {id}
    /\ IF r.err # "nil"
       THEN /\ err' = r.err
            /\ failedId' = id
            /\ okIds' = okIds
       ELSE /\ err' = err
            /\ failedId' = failedId
            /\ okIds' = okIds \cup {id}

\* What GenerateCerts does with a builder's result: return the error, or go
\* on with the loop.
AfterBuilder(id, r) ==
    /\ certInfo' = r.certInfo
    /\ secrets' = r.secrets
    /\ calls' = calls \cup r.calls
    /\ writes' = writes \cup r.writes
    /\ serial' = IF r.writes # {} THEN serial + 1 ELSE serial
    /\ IF r.err # "nil"
       THEN /\ phase' = "done"
            /\ err' = r.err
            /\ failedId' = id
            /\ todo' = {}
            /\ okIds' = okIds
       ELSE /\ phase' = phase
            /\ err' = err
            /\ failedId' = failedId
            /\ todo' = todo \ {id}
            /\ okIds' = okIds \cup {id}

\* ------------------------------------------------------------- actions
\* The state after construction, but for the store and the overlay.
InitRest ==
    /\ certInfo = [x \in {} |-> ZeroInfo]
    /\ namespace \in Namespaces
    /\ phase = "scan"
    /\ todo = {}
    /\ err = "nil"
    /\ run = 0
    /\ nEvents = 0
    /\ serial = 0
    /\ calls = {}
    /\ writes = {}
    /\ okIds = {}
    /\ failedId = ""
    /\ warned = {}
    /\ events = <<>>
    /\ store0 = secrets
    /\ prev = NoPrev

\* A run without overlay, on any initial store.
Init ==
    /\ secrets \in InitialStores
    /\ updates = EmptyMap
    /\ InitRest

\* A run with an update overlay, on an empty store.
InitOverlay ==
    /\ secrets = EmptyMap
    /\ updates \in Overlays
    /\ InitRest

\* The configuration scan hands one variable to RecordCertInfo.
Record ==
    /\ phase = "scan"
    /\ nEvents < MaxEvents
    /\ \E configVar \in ConfigVars :
          certInfo' = RecordCertInfo(certInfo, configVar)
    /\ nEvents' = nEvents + 1
    /\ UNCHANGED << secrets, updates, namespace, phase, todo, err, run, serial,
                    calls, writes, okIds, failedId, warned, events, store0,
                    prev >>

\* The configuration scan hands one variable to RecordCertInfo, and the
\* history keeps it.
RecordLogged ==
    /\ phase = "scan"
    /\ Len(events) < MaxLog
    /\ \E configVar \in RecordEvents :
          /\ certInfo' = RecordCertInfo(certInfo, configVar)
          /\ events' = Append(events, configVar)
    /\ nEvents' = nEvents + 1
    /\ UNCHANGED << secrets, updates, namespace, phase, todo, err, run, serial,
                    calls, writes, okIds, failedId, warned, store0, prev >>

\* GenerateCerts is called, after the scan or again after it returned.
Generate ==
    /\ phase \in {"scan", "done"}
    /\ run < MaxRuns
    /\ run' = run + 1
    /\ phase' = "phase1"
    /\ todo' = Phase1Ids(certInfo)
    /\ err' = "nil"
    /\ calls' = {}
    /\ writes' = {}
    /\ okIds' = {}
    /\ failedId' = ""
    /\ warned' = {}
    /\ store0' = secrets
    /\ prev' = IF phase = "done"
               THEN [ran |-> TRUE, err |-> err, okIds |-> okIds,
                     failedId |-> failedId, wrote |-> (writes # {})]
               ELSE NoPrev
    /\ UNCHANGED << certInfo, secrets, updates, namespace, nEvents, serial,
                    events >>

\* One iteration of the first loop.
CreateCA ==
    /\ phase = "phase1"
    /\ \E id \in todo : \E mintOK \in BOOLEAN :
          AfterBuilder(id, createCA(certInfo, secrets, id, mintOK, serial + 1))
    /\ UNCHANGED << updates, namespace, run, nEvents, warned, events, store0,
                    prev >>

\* The first loop is over, the second begins.
SecondLoop ==
    /\ phase = "phase1"
    /\ todo = {}
    /\ phase' = "phase2"
    /\ todo' = Phase2Ids(certInfo)
    /\ UNCHANGED << certInfo, secrets, updates, namespace, err, run, nEvents,
                    serial, calls, writes, okIds, failedId, warned, events,
                    store0, prev >>

\* One iteration of the second loop.
CreateCert ==
    /\ phase = "phase2"
    /\ \E id \in todo : \E genOK \in BOOLEAN : \E signOK \in BOOLEAN :
          /\ AfterBuilder(id, createCert(certInfo, namespace, secrets, id,
                                         genOK, signOK, serial + 1))
          /\ warned' = IF NoNames(certInfo[id]) THEN warned \cup {id} ELSE warned
    /\ UNCHANGED << updates, namespace, run, nEvents, events, store0, prev >>

\* The second loop is over: return nil.
Return ==
    /\ phase = "phase2"
    /\ todo = {}
    /\ phase' = "done"
    /\ err' = "nil"
    /\ UNCHANGED << certInfo, secrets, updates, namespace, todo, run, nEvents,
                    serial, calls, writes, okIds, failedId, warned, events,
                    store0, prev >>

Next == Record \/ Generate \/ CreateCA \/ SecondLoop \/ CreateCert \/ Return

Spec == Init /\ [][Next]_vars

SpecOverlay == InitOverlay /\ [][Next]_vars

\* A configuration scan alone, on an empty store, with its events logged.
InitRecord ==
    /\ secrets = EmptyMap
    /\ updates = EmptyMap
    /\ InitRest

NextRecord == RecordLogged

SpecRecord == InitRecord /\ [][NextRecord]_vars


\* =============================================================== claims
\* the requests handed to the CA capability for leaf certificates
LeafCalls == {c \in calls : c.op \in {"genkey", "sign"}}

\* both of a record's storage names hold a non-empty store entry
Resolved(store, info) ==
    /\ Len(Data(store, info.PrivateKeyName)) > 0
    /\ Len(Data(store, info.CertificateName)) > 0

\* the first createCert call is about to start
FirstLeafStarts ==
    /\ phase = "phase2"
    /\ todo # {}
    /\ todo = Phase2Ids(certInfo)

\* every record of the registry has both of its storage names
WellNamed ==
    \A id \in DOMAIN certInfo :
        certInfo[id].PrivateKeyName # "" /\ certInfo[id].CertificateName # ""

\* C1 (phase ordering): when the first createCert call starts in a run over a
\* registry with an authority and a leaf (each record with both of its
\* storage names), every authority record holds non-empty store entries
\* under its private-key name and its certificate name, whatever the store
\* held before the run.
C1_PhaseOrdering ==
    (FirstLeafStarts /\ Phase1Ids(certInfo) # {} /\ WellNamed)
        => \A id \in Phase1Ids(certInfo) : Resolved(secrets, certInfo[id])

\* C2 (idempotence): in a run that follows a run which returned nil, on the
\* store that run left, no CA capability is called, no store entry is written
\* (nothing that would make the run dirty), the store stays identical to what
\* it was when the run started, and the run returns nil.
C2_Idempotence ==
    (prev.ran /\ prev.err = "nil")
        => /\ calls = {}
           /\ writes = {}
           /\ secrets = store0
           /\ err = "nil"

\* a second run over at least an authority and a leaf has returned, after a
\* first run that generated material and returned nil
C2_Witness ==
    /\ prev.ran /\ prev.err = "nil" /\ prev.wrote
    /\ phase = "done"
    /\ Phase1Ids(certInfo) # {} /\ Phase2Ids(certInfo) # {}
    /\ okIds = DOMAIN certInfo

\* the overlay holds a non-empty entry under name
InOverlay(name) == Len(MapGet(updates, name, NoBytes)) > 0

\* C3 (override precedence): for every record whose builder has returned and
\* for which the overlay supplies both the private-key entry and the
\* certificate entry, the store holds the overlay's bytes under both names
\* and no CA capability was called for the record.
C3_OverridePrecedence ==
    \A id \in okIds :
        LET info == certInfo[id]
        IN  (InOverlay(info.PrivateKeyName) /\ InOverlay(info.CertificateName))
                => /\ Data(secrets, info.PrivateKeyName) = updates[info.PrivateKeyName]
                   /\ Data(secrets, info.CertificateName) = updates[info.CertificateName]
                   /\ \A c \in calls : c.id # id

\* C4 (pairing invariant): a record of which the overlay holds exactly one
\* of the two entries is never built successfully and nothing is written to
\* the store for it: its builder ends the run with an error.
C4_PairingInvariant ==
    \A id \in DOMAIN certInfo :
        LET info == certInfo[id]
        IN  (InOverlay(info.PrivateKeyName) # InOverlay(info.CertificateName))
                => /\ id \notin okIds
                   /\ \A w \in writes : w.id # id

\* the store holds the record's private key (the record is materialized)
Materialized(store, id) == Len(Data(store, certInfo[id].PrivateKeyName)) > 0

\* C5, the run after an aborted run: a record the store already held when
\* the run started gets no CA-capability call and no store write, and no
\* record whose builder returned nil in the aborted run is attempted again.
C5_ResumeSkips ==
    (prev.ran /\ prev.err # "nil")
        => /\ \A id \in DOMAIN certInfo :
                Materialized(store0, id)
                    => /\ \A c \in calls : c.id # id
                       /\ \A w \in writes : w.id # id
           /\ \A c \in calls : c.id \notin prev.okIds

\* C5, the abort: the step in which GenerateCerts returns an error, and the
\* caller's next call of it, leave every store entry as it is.
C5_AbortKeepsStore ==
    ((phase' = "done" /\ err' # "nil") \/ phase = "done") => secrets' = secrets

\* C5 (resume after failure): an abort keeps the store entries written
\* before it, and the following run skips what the store already holds and
\* attempts only the failed record and the records not yet processed.
C5_Resume == []C5_ResumeSkips /\ [][C5_AbortKeepsStore]_vars

\* a run that wrote entries and then aborted was followed by a run that
\* generated the remaining records and returned nil
C5_Witness ==
    /\ prev.ran /\ prev.err # "nil" /\ prev.wrote /\ prev.okIds # {}
    /\ phase = "done" /\ err = "nil"
    /\ writes # {}
    /\ \E id \in DOMAIN certInfo : Materialized(store0, id)

\* Number of replicas the sizing source may report for a role.
MaxCount == 2

\* the text of a subject-name template after substitution, for a namespace
Substituted(name, ns) ==
    CASE name = TmplApiDomain -> "api.example.com"
      [] name = TmplNsSuffix  -> ns \o ".svc.example.com"

\* the three hosts of replica i of a role's stateful set
ReplicaHosts(r, ns, i) ==
    LET pod == r \o "-" \o ToString(i) \o "." \o r \o "-set"
    IN  << pod, pod \o "." \o ns \o ".svc", pod \o "." \o ns \o ".svc.cluster.local" >>

RECURSIVE AllReplicaHosts(_, _, _, _)
\* the hosts of replicas i .. count-1
AllReplicaHosts(r, ns, i, count) ==
    IF i >= count THEN <<>>
    ELSE ReplicaHosts(r, ns, i) \o AllReplicaHosts(r, ns, i + 1, count)

\* the wildcard pairs of the role name and its qualified forms
RolePairs(r, ns) ==
    << r, "*." \o r,
       r \o "." \o ns \o ".svc", "*." \o r \o "." \o ns \o ".svc",
       r \o "." \o ns \o ".svc.cluster.local",
       "*." \o r \o "." \o ns \o ".svc.cluster.local" >>

\* the wildcard pair of roleName.serviceDomainSuffix
SuffixPair(r) == << r \o ".svc.example.com", "*." \o r \o ".svc.example.com" >>

\* the subject names of a record, substituted, in order
SubstitutedNames(info, ns) ==
    [i \in 1..Len(info.SubjectNames) |-> Substituted(info.SubjectNames[i], ns)]

\* C6 as stated (SAN derivation with replica indices): the host list of
\* every request for a leaf with a role name is the role's wildcard pairs,
\* then three non-wildcard hosts per replica index 0..count-1 for the
\* role's replica count, then the suffix pair, then the subject names.
C6_ReplicaHosts ==
    \A c \in LeafCalls :
        LET info == certInfo[c.id]
        IN  info.RoleName # ""
                => \E count \in 0..MaxCount :
                      c.Hosts = RolePairs(info.RoleName, namespace)
                                \o AllReplicaHosts(info.RoleName, namespace, 0, count)
                                \o SuffixPair(info.RoleName)
                                \o SubstitutedNames(info, namespace)

\* C6 as amended (SAN derivation): the host list of every request for a leaf
\* with a role name is the role's three wildcard pairs, then the three
\* hosts *.role-set, *.role-set.ns.svc and *.role-set.ns.svc.cluster.local,
\* then the suffix pair, then the substituted subject names, in this order.
C6_SANDerivation ==
    \A c \in LeafCalls :
        LET info == certInfo[c.id]
            r    == info.RoleName
            set  == "*." \o r \o "-set"
        IN  r # ""
                => c.Hosts = RolePairs(r, namespace)
                             \o << set, set \o "." \o namespace \o ".svc",
                                   set \o "." \o namespace \o ".svc.cluster.local" >>
                             \o SuffixPair(r)
                             \o SubstitutedNames(info, namespace)

\* a leaf with a role name and subject names was signed and stored
C6_Witness ==
    \E c \in calls :
        /\ c.op = "sign"
        /\ certInfo[c.id].RoleName # ""
        /\ Len(certInfo[c.id].SubjectNames) = 2
        /\ \E w \in writes : w.id = c.id

\* the errors of createCert that the storage names and the CA decide
NotAboutNames ==
    { "CA not found", "Cannot generate cert", "Cannot parse CA cert",
      "Cannot parse CA private key", "Failed to sign cert",
      "empty private key name", "empty certificate name" }

\* C7 (empty-identity fallback): every request for a leaf without subject
\* names and without role name has exactly one host, the record's
\* certificateName; the run warns about the record, and if the run fails at
\* it, then not with an error about its names.
C7_EmptyIdentity ==
    /\ \A c \in LeafCalls :
          NoNames(certInfo[c.id])
              => /\ c.Hosts = <<certInfo[c.id].CertificateName>>
                 /\ c.id \in warned
    /\ \A id \in warned : failedId = id => err \in NotAboutNames

\* a leaf without any name was signed and stored, and the run returned nil
C7_Witness ==
    /\ phase = "done" /\ err = "nil"
    /\ \E c \in calls :
          /\ c.op = "sign"
          /\ NoNames(certInfo[c.id])
          /\ c.id \in warned
          /\ \E w \in writes : w.id = c.id /\ w.name = certInfo[c.id].CertificateName

\* C8 (Common Name): the Common Name of every leaf request is element 0 of
\* its host list: the bare role name when the record has one, and otherwise
\* the first subject name, substituted, when the record has subject names.
C8_CommonName ==
    \A c \in LeafCalls :
        LET info == certInfo[c.id]
        IN  /\ c.CN = Head(c.Hosts)
            /\ info.RoleName # "" => c.CN = info.RoleName
            /\ (info.RoleName = "" /\ Len(info.SubjectNames) > 0)
                  => c.CN = Substituted(info.SubjectNames[1], namespace)

\* a leaf with subject names and no role name was signed and stored
C8_Witness ==
    \E c \in calls :
        /\ c.op = "sign"
        /\ certInfo[c.id].RoleName = ""
        /\ Len(certInfo[c.id].SubjectNames) > 0
        /\ Len(c.Hosts) > 1
        /\ \E w \in writes : w.id = c.id

\* C9 (invariant detection): no store entry is ever written under the empty
\* name or with empty bytes, so the store holds no entry keyed by "".
C9_NoEmptyName ==
    /\ "" \notin DOMAIN secrets
    /\ \A w \in writes : w.name # "" /\ Len(w.bytes) > 0

\* C10 (dirty flag): what GenerateCerts returns tells whether the run wrote
\* a store entry (dirty) or found every record in the store (not dirty), so
\* two consecutive runs that both return without error, with the same
\* returned value, either both wrote to the store or both did not.
C10_DirtyFlag ==
    (phase = "done" /\ prev.ran /\ err = "nil" /\ prev.err = "nil")
        => ((writes # {}) = prev.wrote)


\* the builder call of this step is the one for id
Builds(id) == id \in todo /\ (id \in okIds' \/ failedId' = id)

\* the registry's record of the default authority has no private key or no
\* certificate in memory (also when the registry has no such record)
NoDefaultAuthority ==
    LET ca == MapGet(certInfo, "cacert", ZeroInfo)
    IN  ca.PrivateKey = NoBytes \/ ca.Certificate = NoBytes

\* C11, one step: a createCert call for a leaf whose private-key entry is
\* empty, made while the default authority has no material in memory,
\* returns the error "CA not found", calls no capability and writes nothing.
C11_Step ==
    \A id \in DOMAIN certInfo :
        ( /\ phase = "phase2"
          /\ Builds(id)
          /\ Len(Data(secrets, certInfo[id].PrivateKeyName)) = 0
          /\ NoDefaultAuthority )
            => /\ phase' = "done"
               /\ failedId' = id
               /\ err' = "CA not found"
               /\ calls' = calls
               /\ writes' = writes
               /\ secrets' = secrets

\* C11 (missing default authority): a leaf that must be generated while the
\* record with id "cacert" lacks its private key or its certificate in
\* memory makes createCert return an error, without a sign call and without
\* a store write for the leaf.
C11_MissingAuthority == [][C11_Step]_vars

\* a leaf failed with "CA not found" although an authority was built
\* in the first loop
C11_Witness ==
    /\ phase = "done"
    /\ err = "CA not found"
    /\ failedId \in Phase2Ids(certInfo)
    /\ Phase1Ids(certInfo) # {}
    /\ Phase1Ids(certInfo) \subseteq okIds
    /\ \A c \in calls : c.id # failedId

\* C12, the state: a builder has returned an error exactly when
\* GenerateCerts has returned that error.
C12_Returned ==
    /\ (failedId # "") = (err # "nil")
    /\ err # "nil" => phase = "done"
    /\ failedId # "" => failedId \notin okIds

\* C12, one step: the step in which a builder returns an error changes no
\* store entry, and once a builder has returned an error nothing happens
\* but a new call of GenerateCerts: no builder is invoked, no capability is
\* called, nothing is written, the store and the registry stay as they are.
C12_Step ==
    /\ (failedId = "" /\ failedId' # "") => secrets' = secrets
    /\ failedId # ""
          => /\ secrets' = secrets
             /\ certInfo' = certInfo
             /\ run' = run => /\ calls' = calls
                              /\ writes' = writes
                              /\ okIds' = okIds
                              /\ err' = err
                              /\ failedId' = failedId

\* C12 (stop at first error): once a builder call returns an error, the
\* orchestrator invokes no further builder, retries nothing, returns that
\* error, and leaves the store entries written before the error untouched.
C12_StopAtFirstError == []C12_Returned /\ [][C12_Step]_vars

\* a run returned an error after it wrote entries, with records left that
\* no builder was invoked for
C12_Witness ==
    /\ phase = "done"
    /\ err # "nil"
    /\ writes # {}
    /\ (okIds \cup {failedId}) # DOMAIN certInfo
    /\ \A w \in writes : Data(secrets, w.name) = w.bytes

\* C13, one step: a createCA call for a record whose private-key entry is
\* non-empty returns nil, calls no capability, writes nothing, and sets the
\* record's PrivateKey and Certificate to the store entries under the
\* record's two names.
C13_Step ==
    \A id \in DOMAIN certInfo :
        ( /\ phase = "phase1"
          /\ Builds(id)
          /\ Len(Data(secrets, certInfo[id].PrivateKeyName)) > 0 )
            => /\ id \in okIds'
               /\ calls' = calls
               /\ writes' = writes
               /\ secrets' = secrets
               /\ certInfo'[id].PrivateKey = Data(secrets, certInfo[id].PrivateKeyName)
               /\ certInfo'[id].Certificate = Data(secrets, certInfo[id].CertificateName)
               /\ \A other \in DOMAIN certInfo \ {id} : certInfo'[other] = certInfo[other]

\* C13 (authority adoption): an authority whose private-key entry the store
\* already holds is adopted: no mintRoot call, no store write, and the
\* record's in-memory key and certificate are the store's entries.
C13_Adoption == [][C13_Step]_vars

\* an authority was adopted from a store that held its key and certificate
C13_Witness ==
    \E id \in okIds :
        /\ certInfo[id].IsAuthority
        /\ Len(Data(store0, certInfo[id].PrivateKeyName)) > 0
        /\ certInfo[id].PrivateKey = Data(store0, certInfo[id].PrivateKeyName)
        /\ Len(certInfo[id].Certificate) > 0
        /\ certInfo[id].Certificate = Data(store0, certInfo[id].CertificateName)
        /\ \A c \in calls : c.id # id


\* the logged events of one id, in order
EventsOf(id) == SelectSeq(events, LAMBDA e : e.Generator.ID = id)

\* the index of the last element of seq that passes Test, 0 if none does
LastIndex(seq, Test(_)) ==
    LET S == {i \in 1..Len(seq) : Test(seq[i])}
    IN  IF S = {} THEN 0 ELSE CHOOSE i \in S : \A j \in S : j <= i

\* the ids the logged events name
LoggedIds == {events[i].Generator.ID : i \in 1..Len(events)}

\* the storage name the last event of a value type gives: its variable's
\* name, as it is (raw) or as the store's key for it
LastName(id, valueType, raw) ==
    LET evs == EventsOf(id)
        i   == LastIndex(evs, LAMBDA e : e.Generator.ValueType = valueType)
    IN  IF i = 0 THEN ""
        ELSE IF raw THEN evs[i].Name
        ELSE ConvertNameToKey(evs[i].Name)

\* the merge of everything but the storage names
MergedRest(id) ==
    LET evs == EventsOf(id)
        info == certInfo[id]
        sn  == LastIndex(evs, LAMBDA e : Len(e.Generator.SubjectNames) > 0)
        rn  == LastIndex(evs, LAMBDA e : e.Generator.RoleName # "")
    IN  /\ info.IsAuthority =
              (evs[Len(evs)].Generator.Type = GeneratorTypeCACertificate)
        /\ info.SubjectNames = IF sn = 0 THEN <<>> ELSE evs[sn].Generator.SubjectNames
        /\ info.RoleName = IF rn = 0 THEN "" ELSE evs[rn].Generator.RoleName

\* C14 as stated (registry merge): after any sequence of record events the
\* record of an id has as privateKeyName the name of the last PrivateKey
\* event and as certificateName the name of the last Certificate event, the
\* isAuthority of the last event, and the subjectNames and roleName of the
\* last event that carried a non-empty value.
C14_MergeRawNames ==
    (LoggedIds = DOMAIN certInfo) /\
    \A id \in LoggedIds :
        /\ certInfo[id].PrivateKeyName = LastName(id, ValueTypePrivateKey, TRUE)
        /\ certInfo[id].CertificateName = LastName(id, ValueTypeCertificate, TRUE)
        /\ MergedRest(id)

\* C14 as amended (registry merge): as stated, but privateKeyName and
\* certificateName are the store keys that ConvertNameToKey makes of the
\* names of the last PrivateKey event and of the last Certificate event.
C14_Merge ==
    (LoggedIds = DOMAIN certInfo) /\
    \A id \in LoggedIds :
        /\ certInfo[id].PrivateKeyName = LastName(id, ValueTypePrivateKey, FALSE)
        /\ certInfo[id].CertificateName = LastName(id, ValueTypeCertificate, FALSE)
        /\ MergedRest(id)

\* a record was merged from a key event, a certificate event and a last
\* event without subject names and role name, which cleared neither
C14_Witness ==
    \E id \in LoggedIds :
        LET evs == EventsOf(id)
        IN  /\ Len(evs) = 3
            /\ certInfo[id].PrivateKeyName # ""
            /\ certInfo[id].CertificateName # ""
            /\ Len(evs[3].Generator.SubjectNames) = 0
            /\ evs[3].Generator.RoleName = ""
            /\ Len(certInfo[id].SubjectNames) > 0
            /\ certInfo[id].RoleName # ""
            /\ certInfo[id].IsAuthority

\* the event of this step has a value type that is neither Certificate nor
\* PrivateKey
UnknownKindRecorded ==
    /\ Len(events') = Len(events) + 1
    /\ events'[Len(events')].Generator.ValueType
          \notin {ValueTypeCertificate, ValueTypePrivateKey}

\* C15 (unknown kind ignored): a record event whose kind is neither
\* Certificate nor PrivateKey leaves the registry as it is: no record is
\* created and no field of a record changes.
C15_UnknownKindIgnored == [][UnknownKindRecorded => certInfo' = certInfo]_vars

\* C16 (authority exclusivity): no record is an authority and has subject
\* names or a role name; mintRoot is called for authority records only and
\* the leaf capabilities for the other records only.
C16_AuthorityExclusive ==
    /\ \A id \in DOMAIN certInfo :
          certInfo[id].IsAuthority
              => Len(certInfo[id].SubjectNames) = 0 /\ certInfo[id].RoleName = ""
    /\ \A c \in calls : (c.op = "mintRoot") = certInfo[c.id].IsAuthority


\* the two storage names of a record
NamesOf(id) == {certInfo[id].PrivateKeyName, certInfo[id].CertificateName}

\* the storage names of the registry's records are pairwise distinct
DistinctNames ==
    \A a \in DOMAIN certInfo :
        /\ certInfo[a].PrivateKeyName # certInfo[a].CertificateName
        /\ \A b \in DOMAIN certInfo \ {a} : NamesOf(a) \cap NamesOf(b) = {}

\* the entries the store held, non-empty, when the run started
HeldBefore == {n \in DOMAIN store0 : Len(store0[n]) > 0}

\* C17 as stated (no overwrite of existing material): in a run over a
\* registry with pairwise distinct storage names, every entry the store held
\* before the run keeps its bytes, whether the run returns nil or an error.
C17_NoOverwrite ==
    (phase = "done" /\ DistinctNames)
        => \A n \in HeldBefore : Data(secrets, n) = store0[n]

\* C17 as amended: as stated, except for the certificate entry of a record
\* whose private-key entry was empty before the run; generating that record
\* replaces the certificate entry it finds.
C17_NoOverwriteOfKeyed ==
    (phase = "done" /\ DistinctNames)
        => \A n \in HeldBefore :
              \/ Data(secrets, n) = store0[n]
              \/ \E id \in DOMAIN certInfo :
                    /\ certInfo[id].CertificateName = n
                    /\ Len(Data(store0, certInfo[id].PrivateKeyName)) = 0
                    /\ \E w \in writes : w.id = id /\ w.name = n

\* a run kept the entries of a record the store held and replaced the
\* certificate entry of a record whose private key was missing
C17_Witness ==
    /\ phase = "done"
    /\ DistinctNames
    /\ \E id \in DOMAIN certInfo :
          Materialized(store0, id) /\ NamesOf(id) \subseteq HeldBefore
    /\ \E n \in HeldBefore : Data(secrets, n) # store0[n]

\* the store held, for every record, both of its entries or neither
PairsBefore ==
    \A id \in DOMAIN certInfo :
        (Len(Data(store0, certInfo[id].PrivateKeyName)) > 0)
            = (Len(Data(store0, certInfo[id].CertificateName)) > 0)

\* what a builder call wrote for a record is the record's key and its
\* certificate, made together
WrittenTogether(id) ==
    LET ws == {w \in writes : w.id = id}
    IN  ws # {}
            => /\ {w.name : w \in ws} = NamesOf(id)
               /\ \A v, w \in ws : v.bytes[2] = w.bytes[2]
               /\ \E w \in ws : w.name = certInfo[id].PrivateKeyName /\ IsKeyPEM(w.bytes)
               /\ \E w \in ws : w.name = certInfo[id].CertificateName /\ IsCertPEM(w.bytes)

\* after a run that returned nil every record has both entries, and the
\* entries written for a record were written together
PairsComplete ==
    \A id \in DOMAIN certInfo :
        Resolved(secrets, certInfo[id]) /\ WrittenTogether(id)

\* C18 (complete pairs after success): if the store held both or
\* neither of the two entries of every record, then after a run that
\* returned nil it holds both entries of every record, and key and
\* certificate of a generated record were written by the same builder call.
C18_CompletePairs ==
    (phase = "done" /\ err = "nil" /\ PairsBefore) => PairsComplete

\* the stored certificate of a leaf record, if this engine generated it
GeneratedLeafCerts ==
    { Data(secrets, certInfo[id].CertificateName) : id \in Phase2Ids(certInfo) }
        \cap { b \in {Data(secrets, n) : n \in DOMAIN secrets} :
                  IsCertPEM(b) /\ b[2] > 0 /\ b[2] # b[3] }

\* C19 (signer matches stored authority): every sign call of a run is made
\* with the key and the certificate that the store holds under the default
\* authority's two names, and every leaf certificate this engine generated,
\* in this run or an earlier one, is signed by the authority certificate the
\* store holds.
C19_SignerMatchesStore ==
    LET ca == MapGet(certInfo, defaultCA, ZeroInfo)
    IN  /\ \A c \in calls :
              c.op = "sign"
                  => /\ c.caKey = Data(secrets, ca.PrivateKeyName)
                     /\ c.caCert = Data(secrets, ca.CertificateName)
        /\ \A crt \in GeneratedLeafCerts :
              /\ IsCertPEM(Data(secrets, ca.CertificateName))
              /\ crt[3] = Data(secrets, ca.CertificateName)[2]

\* a leaf was generated in a run that adopted, without minting, the
\* authority an earlier run had minted
C19_Witness ==
    /\ prev.ran
    /\ \A c \in calls : c.op # "mintRoot"
    /\ \E c \in calls :
          /\ c.op = "sign"
          /\ c.caCert[2] > 0
          /\ \E w \in writes : w.id = c.id /\ w.bytes[3] = c.caCert[2]

=============================================================================
